---- MODULE Spec2Model ----
(***************************************************************************)
(* DNS analytics of the nordvpn-linux daemon (package daemon/dns).         *)
(*                                                                         *)
(*   - Event model: event / errorEvent, their String() tables, their JSON  *)
(*     payload and their context paths (analytics.go:13-178).              *)
(*   - Analytics Reporter: dnsAnalytics, one mutex, one field, four        *)
(*     operations called from arbitrary goroutines (analytics.go:187-247). *)
(*   - Resolver-File Monitor: resolvConfFileWatcherMonitor, a goroutine    *)
(*     that selects on the watcher's Events and Errors channels and calls  *)
(*     emitResolvConfOverwrittenEvent on its analytics handle.  Only its   *)
(*     test is available; the loop is modelled from the specification.     *)
(***************************************************************************)
EXTENDS Integers, Sequences, FiniteSets, TLC

\* ------------------------------------------------------------------------
\* Bounds of the model
\* ------------------------------------------------------------------------
\* number of calls the caller goroutines make in total
MaxCalls == 3
\* number of setManagementService calls made beside the running Monitor
MaxSets == 1
\* number of raw notifications the watcher delivers
MaxNotifications == 2
\* number of values the watcher delivers on its error stream
MaxErrors == 1

\* caller goroutines of the reporter; the goroutine of the Monitor's loop is
\* one more user of it
Callers == {1, 2}
Monitor == 0
Goroutines == Callers \cup {Monitor}

\* ------------------------------------------------------------------------
\* Constants of analytics.go
\* ------------------------------------------------------------------------
globalPaths ==
    << "device.*",
       "application.nordvpnapp.*",
       "application.nordvpnapp.version",
       "application.nordvpnapp.platform" >>

debuggerEventBaseKey == "dns"
debuggerEventTypeKey == "type"
debuggerEventManagementServiceKey == "management_service"
debuggerEventErrorTypeKey == "error_type"
debuggerEventCriticalKey == "critical"

\* internal.DebugEventMessageNamespace, as the tests read it back
DebugEventMessageNamespace == "nordvpn-linux"

\* eventType (iota)
resolvConfOverwrittenEventType == 0
dnsConfiguredEventType == 1
dnsConfigurationErrorEventType == 2
EventTypes ==
    {resolvConfOverwrittenEventType, dnsConfiguredEventType, dnsConfigurationErrorEventType}

\* dnsManagementService (iota)
systemdResolvedService == 0
unmanagedService == 1
unknownService == 2
Services == {systemdResolvedService, unmanagedService, unknownService}

\* errorType (iota)
setFailedErrorType == 0
detectionFailedErrorType == 1
ErrorTypes == {setFailedErrorType, detectionFailedErrorType}

\* ------------------------------------------------------------------------
\* Formatting helpers
\* ------------------------------------------------------------------------
Digit(d) ==
    CASE d = 0 -> "0" [] d = 1 -> "1" [] d = 2 -> "2" [] d = 3 -> "3" [] d = 4 -> "4"
      [] d = 5 -> "5" [] d = 6 -> "6" [] d = 7 -> "7" [] d = 8 -> "8" [] OTHER -> "9"

RECURSIVE Digits(_)
Digits(n) == IF n < 10 THEN Digit(n) ELSE Digits(n \div 10) \o Digit(n % 10)

\* fmt.Sprintf("%d", e)
SprintfD(n) == IF n < 0 THEN "-" \o Digits(0 - n) ELSE Digits(n)

\* strconv.FormatBool / the JSON literal of a bool
FormatBool(b) == IF b THEN "true" ELSE "false"

\* the JSON string literal of a Go string without characters to escape
Quote(s) == "\"" \o s \o "\""

\* ------------------------------------------------------------------------
\* String() tables
\* ------------------------------------------------------------------------
eventTypeString(e) ==
    CASE e = resolvConfOverwrittenEventType -> "resolvconf_overwritten"
      [] e = dnsConfiguredEventType -> "dns_configured"
      [] e = dnsConfigurationErrorEventType -> "dns_configuration_error"
      [] OTHER -> SprintfD(e)

dnsManagementServiceString(e) ==
    CASE e = systemdResolvedService -> "systemd-resolved"
      [] e = unmanagedService -> "unmanaged"
      [] e = unknownService -> "unknown"
      [] OTHER -> SprintfD(e)

errorTypeString(e) ==
    CASE e = setFailedErrorType -> "set_failed"
      [] e = detectionFailedErrorType -> "failed_to_detect_management_service"
      [] OTHER -> SprintfD(e)

\* ------------------------------------------------------------------------
\* Event model
\* ------------------------------------------------------------------------
\* newEvent ignores its messageNamespace parameter and stores the constant
newEvent(eventType, messageNamespace, managementService) ==
    [ Event |-> eventTypeString(eventType),
      MessageNamespace |-> DebugEventMessageNamespace,
      ManagementService |-> dnsManagementServiceString(managementService) ]

newErrorEvent(eventType, messageNamespace, managementService, errorType, critical) ==
    [ event |-> newEvent(eventType, messageNamespace, managementService),
      ErrorType |-> errorTypeString(errorType),
      Critical |-> critical ]

\* events.ContextValue{Path, Value}; Value is an interface value, kept as
\* its dynamic type and its printed form
StringValue(s) == [kind |-> "string", val |-> s]
BoolValue(b) == [kind |-> "bool", val |-> FormatBool(b)]
ContextValue(path, value) == [Path |-> path, Value |-> value]

eventToContextPaths(e) ==
    << ContextValue(debuggerEventBaseKey \o "." \o debuggerEventTypeKey,
                    StringValue(e.Event)),
       ContextValue(debuggerEventBaseKey \o "." \o debuggerEventManagementServiceKey,
                    StringValue(e.ManagementService)) >>

\* mutant: the pairs of the embedded event first, the error's own appended
errorEventToContextPathsEventFirst(e) ==
    eventToContextPaths(e.event)
    \o << ContextValue(debuggerEventBaseKey \o "." \o debuggerEventErrorTypeKey,
                       StringValue(e.ErrorType)),
          ContextValue(debuggerEventBaseKey \o "." \o debuggerEventCriticalKey,
                       BoolValue(e.Critical)) >>

errorEventToContextPaths(e) ==
    << ContextValue(debuggerEventBaseKey \o "." \o debuggerEventErrorTypeKey,
                    StringValue(e.ErrorType)),
       ContextValue(debuggerEventBaseKey \o "." \o debuggerEventCriticalKey,
                    BoolValue(e.Critical)) >>
    \o eventToContextPaths(e.event)

\* json.Marshal of a struct: one member per exported field, in field order,
\* under the name of its json tag; the fields of an embedded struct are
\* promoted and come where the embedded struct stands.  A member is kept
\* as its key and the JSON text of its value.
Member(key, text) == [key |-> key, text |-> text]

\* mutant: the json tag of ManagementService is missing
eventMarshalUntagged(e) ==
    << Member("event", Quote(e.Event)),
       Member("namespace", Quote(e.MessageNamespace)),
       Member("ManagementService", Quote(e.ManagementService)) >>

eventMarshal(e) ==
    << Member("event", Quote(e.Event)),
       Member("namespace", Quote(e.MessageNamespace)),
       Member("management_service", Quote(e.ManagementService)) >>

\* mutant: the json tag of Critical spelled as the word is
errorEventMarshalSpelled(e) ==
    eventMarshal(e.event)
    \o << Member("error_type", Quote(e.ErrorType)),
          Member("critical", FormatBool(e.Critical)) >>

errorEventMarshal(e) ==
    eventMarshal(e.event)
    \o << Member("error_type", Quote(e.ErrorType)),
          Member("cricital", FormatBool(e.Critical)) >>

\* the bytes json.Marshal writes for a list of members
RECURSIVE MembersText(_)
MembersText(ms) ==
    IF ms = << >> THEN ""
    ELSE Quote(Head(ms).key) \o ":" \o Head(ms).text
         \o (IF Tail(ms) = << >> THEN "" ELSE "," \o MembersText(Tail(ms)))

JsonText(ms) == "{" \o MembersText(ms) \o "}"

\* events.NewDebuggerEvent(json).WithKeyBasedContextPaths(..).WithGlobalContextPaths(..)
DebuggerEvent(jsonData, keyBasedContextPaths, globalContextPaths) ==
    [ JsonData |-> jsonData,
      KeyBasedContextPaths |-> keyBasedContextPaths,
      GlobalContextPaths |-> globalContextPaths ]

\* whether json.Marshal returns an error
VARIABLE jsonErr

\* json.Marshal returns (data, err), with nil data when err is set.  A
\* struct of strings and bools has no value the encoder rejects, so err is
\* nil wherever the program runs as built (jsonErr = FALSE); the branch for
\* err is reached only where a failure of the encoder is assumed.
NilBytes == << >>
jsonMarshalEvent(e) ==
    [data |-> IF jsonErr THEN NilBytes ELSE eventMarshal(e), err |-> jsonErr]
jsonMarshalErrorEvent(e) ==
    [data |-> IF jsonErr THEN NilBytes ELSE errorEventMarshal(e), err |-> jsonErr]

\* []byte("{}"): the object without members
EmptyObject == << >>

eventToDebuggerEvent(e) ==
    LET r == jsonMarshalEvent(e)
        jsonData == IF r.err THEN EmptyObject ELSE r.data
    IN  DebuggerEvent(jsonData, eventToContextPaths(e), globalPaths)

\* mutant: on a failed Marshal the bare event is returned at once
errorEventToDebuggerEventBare(e) ==
    LET r == jsonMarshalErrorEvent(e)
    IN  IF r.err
        THEN DebuggerEvent(EmptyObject, << >>, << >>)
        ELSE DebuggerEvent(r.data, errorEventToContextPaths(e), globalPaths)

errorEventToDebuggerEvent(e) ==
    LET r == jsonMarshalErrorEvent(e)
        jsonData == IF r.err THEN EmptyObject ELSE r.data
    IN  DebuggerEvent(jsonData, errorEventToContextPaths(e), globalPaths)

\* ------------------------------------------------------------------------
\* State
\* ------------------------------------------------------------------------
VARIABLES
    managementService,  \* dnsAnalytics.managementService
    mu,                 \* dnsAnalytics.mu: Free or the goroutine holding it
    pc,                 \* per goroutine: where it stands in a reporter call
    call,               \* per goroutine: the call in progress and its arguments
    debuggerEvent,      \* per goroutine: the local debuggerEvent
    published,          \* the events debugPublisher.Publish has received, in order
    trace,              \* history: for each published event, the call it came from
    seen,               \* history: per goroutine, the values the field held during its call
    callNo,             \* history: per goroutine, the number of emit calls it has made
    completed,          \* history: the number of emit calls that have returned
    started,            \* history: the number of calls made by the caller goroutines
    lastSet,            \* history: argument of the latest set that took effect
    monPc,              \* Monitor: position of its goroutine
    handles,            \* Monitor: number of live watch handles it holds
    eventsChan,         \* watcher.Events: the notification offered to the loop
    errorChan,          \* watcher.Errors: the error offered to the loop
    curEvent,           \* Monitor: the notification it is handling
    notifSent,          \* history: notifications delivered on watcher.Events
    errSent,            \* history: errors delivered on watcher.Errors
    consumed,           \* history: notifications the loop has received
    monEmitCalls,       \* history: calls of emitResolvConfOverwrittenEvent by the loop
    errorsLogged,       \* history: errors the loop has received and logged
    pure                \* the event model applied to one input, step by step

reporterVars ==
    << managementService, mu, pc, call, debuggerEvent, published, trace, seen,
       callNo, completed, started, lastSet >>
monitorVars ==
    << monPc, handles, eventsChan, errorChan, curEvent, notifSent, errSent,
       consumed, monEmitCalls, errorsLogged >>
vars == << reporterVars, monitorVars, pure, jsonErr >>

Free == -1
NoSet == -1

NoCall == [op |-> "none", service |-> NoSet, errorType |-> setFailedErrorType, critical |-> FALSE]
NoDebuggerEvent == DebuggerEvent(<< >>, << >>, << >>)

\* mutant: managementService left at the zero value of its type
newDNSAnalyticsZero == [managementService |-> systemdResolvedService]

\* newDNSAnalytics
newDNSAnalytics == [managementService |-> unknownService]

ReporterInit ==
    /\ managementService = newDNSAnalytics.managementService
    /\ mu = Free
    /\ pc = [g \in Goroutines |-> "idle"]
    /\ call = [g \in Goroutines |-> NoCall]
    /\ debuggerEvent = [g \in Goroutines |-> NoDebuggerEvent]
    /\ published = << >>
    /\ trace = << >>
    /\ seen = [g \in Goroutines |-> {}]
    /\ callNo = [g \in Goroutines |-> 0]
    /\ completed = 0
    /\ started = 0
    /\ lastSet = NoSet

\* ------------------------------------------------------------------------
\* Analytics Reporter: the steps of a call
\* ------------------------------------------------------------------------
EmitOps == {"emitResolvConfOverwrittenEvent", "emitDNSConfiguredEvent",
            "emitDNSConfigurationErrorEvent"}

\* goroutine g enters an operation of the reporter and stands at d.mu.Lock()
Enter(g, c) ==
    /\ pc[g] = "idle"
    /\ pc' = [pc EXCEPT ![g] = "lock"]
    /\ call' = [call EXCEPT ![g] = c]
    /\ seen' = [seen EXCEPT ![g] = {managementService}]
    /\ callNo' = [callNo EXCEPT ![g] = IF c.op \in EmitOps THEN @ + 1 ELSE @]
    /\ UNCHANGED << managementService, mu, debuggerEvent, published, trace,
                    completed, lastSet >>

\* a caller goroutine calls one of the four operations
CallerEnter(g, c) ==
    /\ g \in Callers
    /\ started' = started + 1
    /\ Enter(g, c)
    /\ UNCHANGED << monitorVars, pure, jsonErr >>

CallSetManagementService(g, s) ==
    CallerEnter(g, [NoCall EXCEPT !.op = "setManagementService", !.service = s])

CallEmitResolvConfOverwrittenEvent(g) ==
    CallerEnter(g, [NoCall EXCEPT !.op = "emitResolvConfOverwrittenEvent"])

CallEmitDNSConfiguredEvent(g) ==
    CallerEnter(g, [NoCall EXCEPT !.op = "emitDNSConfiguredEvent"])

CallEmitDNSConfigurationErrorEvent(g, et, critical) ==
    CallerEnter(g, [NoCall EXCEPT !.op = "emitDNSConfigurationErrorEvent",
                                  !.errorType = et, !.critical = critical])

\* mutant: Lock() does not wait for the holder
LockNoExclusion(g) ==
    /\ pc[g] = "lock"
    /\ mu' = g
    /\ pc' = [pc EXCEPT ![g] = "body"]
    /\ UNCHANGED << managementService, call, debuggerEvent, published, trace, seen,
                    callNo, completed, started, lastSet, monitorVars, pure, jsonErr >>

\* d.mu.Lock(): returns once the mutex is free, and holds it
Lock(g) ==
    /\ pc[g] = "lock"
    /\ mu = Free
    /\ mu' = g
    /\ pc' = [pc EXCEPT ![g] = "body"]
    /\ UNCHANGED << managementService, call, debuggerEvent, published, trace, seen,
                    callNo, completed, started, lastSet, monitorVars, pure, jsonErr >>

\* mutant: value receiver, the assignment goes to a copy of the reporter
setManagementServiceOnCopy(g) ==
    /\ pc[g] = "body"
    /\ call[g].op = "setManagementService"
    /\ lastSet' = call[g].service
    /\ pc' = [pc EXCEPT ![g] = "unlock"]
    /\ UNCHANGED << managementService, mu, call, debuggerEvent, published, trace, seen,
                    callNo, completed, started, monitorVars, pure, jsonErr >>

\* d.managementService = managementService
setManagementService(g) ==
    /\ pc[g] = "body"
    /\ call[g].op = "setManagementService"
    /\ managementService' = call[g].service
    /\ lastSet' = call[g].service
    /\ seen' = [h \in Goroutines |->
                  IF pc[h] # "idle" THEN seen[h] \cup {call[g].service} ELSE seen[h]]
    /\ pc' = [pc EXCEPT ![g] = "unlock"]
    /\ UNCHANGED << mu, call, debuggerEvent, published, trace, callNo, completed,
                    started, monitorVars, pure, jsonErr >>

\* mutant: the emit operations use the value the reporter was created with
ReadManagementServiceStale == unknownService

\* the value an emit operation reads from d.managementService
ReadManagementService == managementService

\* mutant: the lock is given up as soon as the field has been read
BuildThenUnlock(g, ev) ==
    /\ pc[g] = "body"
    /\ debuggerEvent' = [debuggerEvent EXCEPT ![g] = ev]
    /\ pc' = [pc EXCEPT ![g] = "publish"]
    /\ mu' = Free
    /\ UNCHANGED << managementService, call, published, trace, seen, callNo,
                    completed, started, lastSet, monitorVars, pure, jsonErr >>

\* the emit operations build their local debuggerEvent from the field
Build(g, ev) ==
    /\ pc[g] = "body"
    /\ debuggerEvent' = [debuggerEvent EXCEPT ![g] = ev]
    /\ pc' = [pc EXCEPT ![g] = "publish"]
    /\ UNCHANGED << managementService, mu, call, published, trace, seen, callNo,
                    completed, started, lastSet, monitorVars, pure, jsonErr >>

\* mutant: the event type of the neighbouring operation
emitResolvConfOverwrittenEventWrongType(g) ==
    /\ call[g].op = "emitResolvConfOverwrittenEvent"
    /\ Build(g, eventToDebuggerEvent(
                    newEvent(dnsConfiguredEventType,
                             DebugEventMessageNamespace,
                             ReadManagementService)))

emitResolvConfOverwrittenEvent(g) ==
    /\ call[g].op = "emitResolvConfOverwrittenEvent"
    /\ Build(g, eventToDebuggerEvent(
                    newEvent(resolvConfOverwrittenEventType,
                             DebugEventMessageNamespace,
                             ReadManagementService)))

\* mutant: the operation puts the field back to the value it was created with
emitDNSConfiguredEventResetting(g) ==
    /\ call[g].op = "emitDNSConfiguredEvent"
    /\ pc[g] = "body"
    /\ debuggerEvent' = [debuggerEvent EXCEPT ![g] =
                            eventToDebuggerEvent(
                                newEvent(dnsConfiguredEventType,
                                         DebugEventMessageNamespace,
                                         ReadManagementService))]
    /\ managementService' = unknownService
    /\ pc' = [pc EXCEPT ![g] = "publish"]
    /\ UNCHANGED << mu, call, published, trace, seen, callNo,
                    completed, started, lastSet, monitorVars, pure, jsonErr >>

emitDNSConfiguredEvent(g) ==
    /\ call[g].op = "emitDNSConfiguredEvent"
    /\ Build(g, eventToDebuggerEvent(
                    newEvent(dnsConfiguredEventType,
                             DebugEventMessageNamespace,
                             ReadManagementService)))

emitDNSConfigurationErrorEvent(g) ==
    /\ call[g].op = "emitDNSConfigurationErrorEvent"
    /\ Build(g, errorEventToDebuggerEvent(
                    newErrorEvent(dnsConfigurationErrorEventType,
                                  DebugEventMessageNamespace,
                                  ReadManagementService,
                                  call[g].errorType,
                                  call[g].critical)))

\* the publisher takes the event it is handed
Handoff(received, ev) == Append(received, ev)

\* mutant: Publish is called twice
PublishTwice(g) ==
    /\ pc[g] = "publish"
    /\ published' = Handoff(Handoff(published, debuggerEvent[g]), debuggerEvent[g])
    /\ trace' = LET t == [g |-> g, n |-> callNo[g], op |-> call[g].op,
                          errorType |-> call[g].errorType,
                          critical |-> call[g].critical,
                          lastSet |-> lastSet]
                IN  Handoff(Handoff(trace, t), t)
    /\ pc' = [pc EXCEPT ![g] = "inPublish"]
    /\ UNCHANGED << managementService, mu, call, debuggerEvent, seen, callNo,
                    completed, started, lastSet, monitorVars, pure, jsonErr >>

\* mutant: Publish is started in a goroutine of its own (go Publish(..)) and
\* the operation goes on without waiting for the handoff
PublishDeferred(g) ==
    /\ pc[g] = "publish"
    /\ pc' = [pc EXCEPT ![g] = "unlock"]
    /\ UNCHANGED << managementService, mu, call, debuggerEvent, published, trace,
                    seen, callNo, completed, started, lastSet, monitorVars, pure, jsonErr >>

\* d.debugPublisher.Publish(*debuggerEvent) is called: the publisher has the event
Publish(g) ==
    /\ pc[g] = "publish"
    /\ published' = Handoff(published, debuggerEvent[g])
    /\ trace' = Handoff(trace, [g |-> g, n |-> callNo[g], op |-> call[g].op,
                                 errorType |-> call[g].errorType,
                                 critical |-> call[g].critical,
                                 lastSet |-> lastSet])
    /\ pc' = [pc EXCEPT ![g] = "inPublish"]
    /\ UNCHANGED << managementService, mu, call, debuggerEvent, seen, callNo,
                    completed, started, lastSet, monitorVars, pure, jsonErr >>

\* Publish returns, after however long it takes
PublishReturn(g) ==
    /\ pc[g] = "inPublish"
    /\ pc' = [pc EXCEPT ![g] = "unlock"]
    /\ UNCHANGED << managementService, mu, call, debuggerEvent, published, trace,
                    seen, callNo, completed, started, lastSet, monitorVars, pure, jsonErr >>

\* mutant: the operation returns without the deferred Unlock()
UnlockForgotten(g) ==
    /\ pc[g] = "unlock"
    /\ pc' = [pc EXCEPT ![g] = "idle"]
    /\ call' = [call EXCEPT ![g] = NoCall]
    /\ debuggerEvent' = [debuggerEvent EXCEPT ![g] = NoDebuggerEvent]
    /\ seen' = [seen EXCEPT ![g] = {}]
    /\ completed' = IF call[g].op \in EmitOps THEN completed + 1 ELSE completed
    /\ UNCHANGED << managementService, mu, published, trace, callNo, started,
                    lastSet, pure, jsonErr >>

\* defer d.mu.Unlock() runs and the operation returns
Unlock(g) ==
    /\ pc[g] = "unlock"
    /\ mu' = Free
    /\ pc' = [pc EXCEPT ![g] = "idle"]
    /\ call' = [call EXCEPT ![g] = NoCall]
    /\ debuggerEvent' = [debuggerEvent EXCEPT ![g] = NoDebuggerEvent]
    /\ seen' = [seen EXCEPT ![g] = {}]
    /\ completed' = IF call[g].op \in EmitOps THEN completed + 1 ELSE completed
    /\ UNCHANGED << managementService, published, trace, callNo, started, lastSet,
                    pure, jsonErr >>

\* the operation returns to a caller goroutine
Return(g) ==
    /\ g \in Callers
    /\ Unlock(g)
    /\ UNCHANGED monitorVars

\* ------------------------------------------------------------------------
\* Resolver-File Monitor (resolvConfFileWatcherMonitor)
\* ------------------------------------------------------------------------
\* fsnotify.Op of a notification; NoOp is fsnotify.Event{}
NoOp == "none"
Ops == {NoOp, "write", "rename"}
\* the kinds after which the watched file may have been replaced
ReplaceOps == {"rename"}

MonitorInit ==
    /\ monPc = "new"
    /\ handles = 0
    /\ eventsChan = << >>
    /\ errorChan = << >>
    /\ curEvent = NoOp
    /\ notifSent = 0
    /\ errSent = 0
    /\ consumed = 0
    /\ monEmitCalls = 0
    /\ errorsLogged = 0

\* mutant: the loop is started although no watch could be set up
StartLoopAnyway(ok) ==
    /\ monPc = "new"
    /\ monPc' = "select"
    /\ handles' = IF ok THEN 1 ELSE 0
    /\ UNCHANGED << eventsChan, errorChan, curEvent, notifSent, errSent, consumed,
                    monEmitCalls, errorsLogged, reporterVars, pure, jsonErr >>

\* Start(): getWatcherFunc either yields a watcher, and the loop runs in its
\* own goroutine, or fails, and no loop runs; Start returns in both cases
Start(ok) ==
    /\ monPc = "new"
    /\ monPc' = IF ok THEN "select" ELSE "off"
    /\ handles' = IF ok THEN 1 ELSE 0
    /\ UNCHANGED << eventsChan, errorChan, curEvent, notifSent, errSent, consumed,
                    monEmitCalls, errorsLogged, reporterVars, pure, jsonErr >>

\* the watcher offers a notification on its Events channel
DeliverEvent(op) ==
    /\ monPc # "new"
    /\ eventsChan = << >>
    /\ eventsChan' = << op >>
    /\ notifSent' = notifSent + 1
    /\ UNCHANGED << monPc, handles, errorChan, curEvent, errSent, consumed,
                    monEmitCalls, errorsLogged, reporterVars, pure, jsonErr >>

\* the watcher offers an error on its Errors channel
DeliverError ==
    /\ monPc # "new"
    /\ errorChan = << >>
    /\ errorChan' = << "error" >>
    /\ errSent' = errSent + 1
    /\ UNCHANGED << monPc, handles, eventsChan, curEvent, notifSent, consumed,
                    monEmitCalls, errorsLogged, reporterVars, pure, jsonErr >>

\* case event := <-watcher.Events: any notification makes the loop call
\* emitResolvConfOverwrittenEvent on its analytics handle
MonitorEvent ==
    /\ monPc = "select"
    /\ eventsChan # << >>
    /\ curEvent' = Head(eventsChan)
    /\ eventsChan' = << >>
    /\ consumed' = consumed + 1
    /\ monEmitCalls' = monEmitCalls + 1
    /\ monPc' = "emit"
    /\ Enter(Monitor, [NoCall EXCEPT !.op = "emitResolvConfOverwrittenEvent"])
    /\ UNCHANGED << handles, errorChan, notifSent, errSent, errorsLogged, started, pure, jsonErr >>

\* mutant: an error ends the loop
MonitorErrorFatal ==
    /\ monPc = "select"
    /\ errorChan # << >>
    /\ errorChan' = << >>
    /\ errorsLogged' = errorsLogged + 1
    /\ monPc' = "off"
    /\ UNCHANGED << handles, eventsChan, curEvent, notifSent, errSent,
                    consumed, monEmitCalls, reporterVars, pure, jsonErr >>

\* case err := <-watcher.Errors: logged, the loop goes on
MonitorError ==
    /\ monPc = "select"
    /\ errorChan # << >>
    /\ errorChan' = << >>
    /\ errorsLogged' = errorsLogged + 1
    /\ UNCHANGED << monPc, handles, eventsChan, curEvent, notifSent, errSent,
                    consumed, monEmitCalls, reporterVars, pure, jsonErr >>

\* the emit call returns to the loop: after a notification that may stand
\* for a replaced file the watch is re-armed, otherwise the loop waits again
MonitorEmitReturn ==
    /\ monPc = "emit"
    /\ Unlock(Monitor)
    /\ monPc' = IF curEvent \in ReplaceOps THEN "rearm" ELSE "select"
    /\ UNCHANGED << handles, eventsChan, errorChan, curEvent, notifSent, errSent,
                    consumed, monEmitCalls, errorsLogged >>

\* mutant: the new handle is created and the old one is not discarded
MonitorRearmKeepOld(ok) ==
    /\ monPc = "rearm"
    /\ handles' = handles + (IF ok THEN 1 ELSE 0)
    /\ monPc' = "select"
    /\ UNCHANGED << eventsChan, errorChan, curEvent, notifSent, errSent, consumed,
                    monEmitCalls, errorsLogged, reporterVars, pure, jsonErr >>

\* mutant: a failed re-arm ends the loop
MonitorRearmFatal(ok) ==
    /\ monPc = "rearm"
    /\ handles' = IF ok THEN 1 ELSE 0
    /\ monPc' = IF ok THEN "select" ELSE "off"
    /\ UNCHANGED << eventsChan, errorChan, curEvent, notifSent, errSent, consumed,
                    monEmitCalls, errorsLogged, reporterVars, pure, jsonErr >>

\* re-arm: the old handle is discarded and a new one is created for the
\* same path, which may fail; the loop goes on in both cases
MonitorRearm(ok) ==
    /\ monPc = "rearm"
    /\ handles' = IF ok THEN 1 ELSE 0
    /\ monPc' = "select"
    /\ UNCHANGED << eventsChan, errorChan, curEvent, notifSent, errSent, consumed,
                    monEmitCalls, errorsLogged, reporterVars, pure, jsonErr >>

\* ------------------------------------------------------------------------
\* The event model on its own: one input, constructed, then converted
\* ------------------------------------------------------------------------
PureOff == [phase |-> "off"]

PureInputs ==
    { [phase |-> "input", kind |-> "event", eventType |-> t, service |-> s,
       errorType |-> setFailedErrorType, critical |-> FALSE] :
         t \in EventTypes, s \in Services }
    \cup
    { [phase |-> "input", kind |-> "errorEvent", eventType |-> t, service |-> s,
       errorType |-> et, critical |-> c] :
         t \in EventTypes, s \in Services, et \in ErrorTypes, c \in BOOLEAN }

PureNewEvent ==
    /\ pure.phase = "input"
    /\ pure.kind = "event"
    /\ pure' = [phase |-> "constructed", in |-> pure,
                e |-> newEvent(pure.eventType, DebugEventMessageNamespace, pure.service)]
    /\ UNCHANGED << reporterVars, monitorVars, jsonErr >>

PureNewErrorEvent ==
    /\ pure.phase = "input"
    /\ pure.kind = "errorEvent"
    /\ pure' = [phase |-> "constructed", in |-> pure,
                e |-> newErrorEvent(pure.eventType, DebugEventMessageNamespace,
                                    pure.service, pure.errorType, pure.critical)]
    /\ UNCHANGED << reporterVars, monitorVars, jsonErr >>

PureEventToDebuggerEvent ==
    /\ pure.phase = "constructed"
    /\ pure.in.kind = "event"
    /\ pure' = [phase |-> "done", in |-> pure.in, e |-> pure.e,
                out |-> eventToDebuggerEvent(pure.e)]
    /\ UNCHANGED << reporterVars, monitorVars, jsonErr >>

PureErrorEventToDebuggerEvent ==
    /\ pure.phase = "constructed"
    /\ pure.in.kind = "errorEvent"
    /\ pure' = [phase |-> "done", in |-> pure.in, e |-> pure.e,
                out |-> errorEventToDebuggerEvent(pure.e)]
    /\ UNCHANGED << reporterVars, monitorVars, jsonErr >>

\* ------------------------------------------------------------------------
\* Specifications
\* ------------------------------------------------------------------------
Init ==
    /\ ReporterInit
    /\ MonitorInit
    /\ pure = PureOff
    /\ jsonErr = FALSE

ReporterStep(g) ==
    \/ Lock(g)
    \/ setManagementService(g)
    \/ emitResolvConfOverwrittenEvent(g)
    \/ emitDNSConfiguredEvent(g)
    \/ emitDNSConfigurationErrorEvent(g)
    \/ Publish(g)
    \/ PublishReturn(g)

\* a caller goroutine makes its next call
CallerCall(g) ==
    \/ \E s \in Services : CallSetManagementService(g, s)
    \/ CallEmitResolvConfOverwrittenEvent(g)
    \/ CallEmitDNSConfiguredEvent(g)
    \/ \E et \in ErrorTypes, c \in BOOLEAN : CallEmitDNSConfigurationErrorEvent(g, et, c)

\* a caller goroutine goes on with the call it is in
CallerStep(g) ==
    \/ ReporterStep(g)
    \/ Return(g)

\* the loop only ever calls emitResolvConfOverwrittenEvent
MonitorStep ==
    \/ MonitorEvent
    \/ MonitorError
    \/ Lock(Monitor)
    \/ emitResolvConfOverwrittenEvent(Monitor)
    \/ Publish(Monitor)
    \/ PublishReturn(Monitor)
    \/ MonitorEmitReturn
    \/ \E ok \in BOOLEAN : MonitorRearm(ok)

\* the daemon starts the Monitor; the watcher delivers at most n
\* notifications and m errors
Environment(n, m) ==
    \/ \E ok \in BOOLEAN : Start(ok)
    \/ \E op \in Ops : notifSent < n /\ DeliverEvent(op)
    \/ errSent < m /\ DeliverError

Next ==
    \/ \E g \in Callers : started < MaxCalls /\ CallerCall(g)
    \/ \E g \in Callers : CallerStep(g)

\* the caller goroutines use the reporter concurrently
Spec == Init /\ [][Next]_vars

\* the same, where every goroutine that can take a step eventually takes one
FairSpec ==
    /\ Spec
    /\ \A g \in Callers : WF_vars(CallerStep(g))

\* the goroutine of the detection logic, which sets the management service
Detector == 1

\* the Monitor's loop and the watcher, with the detection logic setting the
\* management service beside them; a goroutine that can take a step
\* eventually takes one
DetectorStep ==
    \/ Lock(Detector)
    \/ setManagementService(Detector)
    \/ Return(Detector)

MonitorNext ==
    \/ started < MaxSets /\ \E v \in Services : CallSetManagementService(Detector, v)
    \/ DetectorStep
    \/ MonitorStep
    \/ Environment(MaxNotifications, MaxErrors)
MonitorSpec ==
    /\ Init
    /\ [][MonitorNext]_vars
    /\ WF_vars(DetectorStep)
    /\ WF_vars(MonitorStep)

\* one goroutine alone uses the reporter
SeqCaller == 1
SeqNext ==
    \/ started < MaxCalls /\ CallerCall(SeqCaller)
    \/ CallerStep(SeqCaller)
SeqSpec == Init /\ [][SeqNext]_vars

\* one goroutine uses the reporter, where json.Marshal may be failing
FaultInit ==
    /\ ReporterInit
    /\ MonitorInit
    /\ pure = PureOff
    /\ jsonErr \in BOOLEAN
FaultSpec == FaultInit /\ [][SeqNext]_vars

\* the event model applied to every input
PureInit ==
    /\ ReporterInit
    /\ MonitorInit
    /\ pure \in PureInputs
    /\ jsonErr = FALSE
PureNext ==
    \/ PureNewEvent
    \/ PureNewErrorEvent
    \/ PureEventToDebuggerEvent
    \/ PureErrorEventToDebuggerEvent
PureSpec == PureInit /\ [][PureNext]_vars

\* ------------------------------------------------------------------------
\* Vocabulary of the properties
\* ------------------------------------------------------------------------
\* the wire names of section 6, written out
EventName ==
    [t \in EventTypes |->
        IF t = 0 THEN "resolvconf_overwritten"
        ELSE IF t = 1 THEN "dns_configured" ELSE "dns_configuration_error"]
ServiceName ==
    [v \in Services |->
        IF v = 0 THEN "systemd-resolved" ELSE IF v = 1 THEN "unmanaged" ELSE "unknown"]
ErrorName ==
    [t \in ErrorTypes |->
        IF t = 0 THEN "set_failed" ELSE "failed_to_detect_management_service"]
OpEventName ==
    [o \in EmitOps |->
        IF o = "emitResolvConfOverwrittenEvent" THEN "resolvconf_overwritten"
        ELSE IF o = "emitDNSConfiguredEvent" THEN "dns_configured"
        ELSE "dns_configuration_error"]

\* the JSON text of member key of a payload, "" when the payload has none
MemberText(ms, key) ==
    IF \E i \in 1..Len(ms) : ms[i].key = key
    THEN ms[CHOOSE i \in 1..Len(ms) : ms[i].key = key].text
    ELSE ""

\* the printed value at a context path of an event, "" when it has none
ContextText(cps, path) ==
    IF \E i \in 1..Len(cps) : cps[i].Path = path
    THEN cps[CHOOSE i \in 1..Len(cps) : cps[i].Path = path].Value.val
    ELSE ""

Keys(ms) == [i \in 1..Len(ms) |-> ms[i].key]

\* the position among the published events of the event of g's current call
Current(g) == CHOOSE i \in 1..Len(trace) : trace[i].g = g /\ trace[i].n = callNo[g]

\* g has handed the event of its current call to the publisher
Handed(g) == pc[g] \in {"inPublish", "unlock"} /\ call[g].op \in EmitOps

\* the events the Monitor's goroutine has published as resolvconf_overwritten
MonitorEmissions ==
    Cardinality({ i \in 1..Len(published) :
                    /\ trace[i].g = Monitor
                    /\ MemberText(published[i].JsonData, "event")
                         = "\"resolvconf_overwritten\"" })

\* ------------------------------------------------------------------------
\* C1: under every interleaving of set and emit calls, the management_service
\* of each published payload is one of the three service names and is the
\* value the field held at one instant between the start of that emit call
\* and its return; payload and context paths carry the same value.
\* ------------------------------------------------------------------------
C1_ConsistentSnapshot ==
    /\ \A i \in 1..Len(published) :
          \E v \in Services :
             MemberText(published[i].JsonData, "management_service")
               = Quote(ServiceName[v])
    /\ \A g \in Goroutines :
          Handed(g) =>
             \E v \in seen[g] :
                /\ MemberText(published[Current(g)].JsonData, "management_service")
                     = Quote(ServiceName[v])
                /\ ContextText(published[Current(g)].KeyBasedContextPaths,
                               "dns.management_service") = ServiceName[v]

\* an emit call that waited for the lock while a set changed the field has
\* handed its event to the publisher
C1_Witness ==
    \E g \in Goroutines : Handed(g) /\ Cardinality(seen[g]) >= 2

\* ------------------------------------------------------------------------
\* C2 (as stated): the lock is never held while Publish is being called.
\* ------------------------------------------------------------------------
C2_LockFreeDuringPublish ==
    \A g \in Goroutines : pc[g] = "inPublish" => mu # g

\* C2 (amended): the lock is held from Lock() until the operation returns,
\* the whole Publish call included; while one goroutine is inside Publish no
\* other goroutine's set or emit call can take the lock.
C2_LockHeldAcrossPublish ==
    \A g \in Goroutines :
       pc[g] \in {"body", "publish", "inPublish", "unlock"} =>
          /\ mu = g
          /\ \A h \in Goroutines \ {g} : ~ ENABLED Lock(h)

\* one goroutine is inside Publish while another waits at Lock()
C2_Witness ==
    \E g, h \in Goroutines : pc[g] = "inPublish" /\ pc[h] = "lock"

\* ------------------------------------------------------------------------
\* C3: in single-goroutine use every emit operation publishes the service
\* given to the most recent preceding setManagementService call.
\* ------------------------------------------------------------------------
C3_NoStaleRead ==
    \A i \in 1..Len(published) :
       trace[i].lastSet # NoSet =>
          MemberText(published[i].JsonData, "management_service")
            = Quote(ServiceName[trace[i].lastSet])

\* an emit before any set, then a set, then an emit that shows the new value
C3_Witness ==
    /\ Len(published) = 2
    /\ trace[1].lastSet = NoSet
    /\ trace[2].lastSet = systemdResolvedService

C5_ErrorNotFatal ==
    /\ [][errorsLogged' # errorsLogged =>
            /\ monPc' = "select"
            /\ monEmitCalls' = monEmitCalls
            /\ published' = published
            /\ pc'[Monitor] = pc[Monitor]]_vars
    /\ \A k \in 1..MaxNotifications :
          (errorsLogged >= 1 /\ notifSent >= k) ~> (MonitorEmissions >= k)

\* the loop logged an error, then consumed a notification, and the emit call
\* it made for it has handed its event to the publisher
C5_Witness ==
    /\ errorsLogged >= 1
    /\ monPc = "emit"
    /\ Handed(Monitor)
    /\ MonitorEmissions = consumed

\* ------------------------------------------------------------------------
\* C6: every completed emit call has handed exactly one event to the
\* publisher, of the event type of the operation called, and set calls hand
\* none: the published events are those of the completed emit calls and of
\* the emit calls that are past their Publish call.
\* ------------------------------------------------------------------------
C6_OneEventPerEmit ==
    /\ Len(published) = completed + Cardinality({g \in Goroutines : Handed(g)})
    /\ \A i \in 1..Len(published) :
          /\ trace[i].op \in EmitOps
          /\ MemberText(published[i].JsonData, "event") = Quote(OpEventName[trace[i].op])
          /\ ContextText(published[i].KeyBasedContextPaths, "dns.type")
               = OpEventName[trace[i].op]

\* all calls have returned, among them a set and two emits
C6_Witness ==
    /\ \A g \in Goroutines : pc[g] = "idle"
    /\ lastSet # NoSet
    /\ completed = 2

\* ------------------------------------------------------------------------
\* C7: the events of one goroutine reach the publisher in the order of its
\* calls, and an emit call has returned only after its event was handed over.
\* ------------------------------------------------------------------------
C7_ProgramOrder ==
    /\ \A i, j \in 1..Len(trace) :
          (i < j /\ trace[i].g = trace[j].g) => trace[i].n < trace[j].n
    /\ \A g \in Goroutines :
          pc[g] \in {"idle", "lock", "body", "publish"} =>
             { trace[i].n : i \in { k \in 1..Len(trace) : trace[k].g = g } }
               = 1..(IF pc[g] = "idle" \/ call[g].op \notin EmitOps
                     THEN callNo[g] ELSE callNo[g] - 1)

\* two events of one goroutine with an event of another between them
C7_Witness ==
    /\ Len(trace) = 3
    /\ trace[1].g = trace[3].g
    /\ trace[2].g # trace[1].g

\* ------------------------------------------------------------------------
\* C8: for each of the three event types and three services the payload of
\* a plain event is the members event, namespace, management_service in that
\* order, with the names of section 6.
\* ------------------------------------------------------------------------
C8_PlainPayload ==
    (pure.phase = "done" /\ pure.in.kind = "event") =>
       /\ Keys(pure.out.JsonData) = << "event", "namespace", "management_service" >>
       /\ JsonText(pure.out.JsonData)
            = "{\"event\":\"" \o EventName[pure.in.eventType]
              \o "\",\"namespace\":\"nordvpn-linux\",\"management_service\":\""
              \o ServiceName[pure.in.service] \o "\"}"

C8_Witness ==
    /\ pure.phase = "done"
    /\ pure.in.kind = "event"
    /\ pure.in.eventType = dnsConfigurationErrorEventType
    /\ pure.in.service = systemdResolvedService

\* ------------------------------------------------------------------------
\* C9: the payload published by emitDNSConfigurationErrorEvent is the five
\* members event, namespace, management_service, error_type, cricital in that
\* order, with the caller's error type and the caller's critical value.
\* ------------------------------------------------------------------------
C9_ErrorPayload ==
    \A i \in 1..Len(published) :
       trace[i].op = "emitDNSConfigurationErrorEvent" =>
          /\ Keys(published[i].JsonData)
               = << "event", "namespace", "management_service", "error_type", "cricital" >>
          /\ \E v \in Services :
                JsonText(published[i].JsonData)
                  = "{\"event\":\"dns_configuration_error\",\"namespace\":\"nordvpn-linux\""
                    \o ",\"management_service\":\"" \o ServiceName[v]
                    \o "\",\"error_type\":\"" \o ErrorName[trace[i].errorType]
                    \o "\",\"cricital\":" \o (IF trace[i].critical THEN "true" ELSE "false")
                    \o "}"

C9_Witness ==
    \E i \in 1..Len(published) :
       /\ trace[i].op = "emitDNSConfigurationErrorEvent"
       /\ trace[i].critical
       /\ trace[i].errorType = detectionFailedErrorType
       /\ trace[i].lastSet = systemdResolvedService

\* ------------------------------------------------------------------------
\* C10: a new reporter holds Unknown, every event published before a set
\* has taken effect says "unknown", and the field changes only in the
\* assignment of setManagementService.
\* ------------------------------------------------------------------------
C10_UnknownUntilSet ==
    /\ [](lastSet = NoSet =>
            /\ managementService = unknownService
            /\ \A i \in 1..Len(published) :
                  MemberText(published[i].JsonData, "management_service") = "\"unknown\"")
    /\ [][managementService' # managementService =>
            \E g \in Goroutines :
               /\ pc[g] = "body"
               /\ call[g].op = "setManagementService"
               /\ managementService' = call[g].service]_vars

\* two events were published and no set call has been made
C10_Witness ==
    /\ lastSet = NoSet
    /\ Len(published) = 2
    /\ \A g \in Goroutines : call[g].op # "setManagementService"

\* ------------------------------------------------------------------------
\* C11: the Monitor holds at most one live watch handle at any time; a
\* re-arm leaves it with the new handle alone, or with none when the new
\* watch could not be created, and only a re-arm or Start changes the handle.
\* ------------------------------------------------------------------------
C11_AtMostOneHandle ==
    /\ [](handles \in {0, 1})
    /\ [][handles' # handles =>
            /\ monPc \in {"new", "rearm"}
            /\ handles' <= 1]_vars

\* the watch was re-armed twice, after two renames, and one handle is live
C11_Witness ==
    /\ monPc = "select"
    /\ consumed = 2
    /\ curEvent \in ReplaceOps
    /\ handles = 1
    /\ MonitorEmissions = 2

\* ------------------------------------------------------------------------
\* C12: when the initial watch cannot be set up, Start() returns and no loop
\* runs: nothing is ever consumed from the two streams, no emission is made
\* and no watch is attempted again.  (Before the first notification is
\* consumed, no handle means that the initial watch failed.)
\* ------------------------------------------------------------------------
C12_NoLoopWithoutWatch ==
    /\ []((monPc # "new" /\ handles = 0 /\ consumed = 0) => monPc = "off")
    /\ [](monPc = "off" =>
            /\ handles = 0
            /\ consumed = 0
            /\ errorsLogged = 0
            /\ monEmitCalls = 0
            /\ pc[Monitor] = "idle"
            /\ MonitorEmissions = 0)
    /\ [][monPc = "off" => (monPc' = "off" /\ handles' = 0)]_vars

\* the initial watch failed; a notification and an error wait unconsumed
C12_Witness ==
    /\ monPc = "off"
    /\ eventsChan # << >>
    /\ errorChan # << >>

C14_ContextPaths ==
    pure.phase = "done" =>
       LET cps == pure.out.KeyBasedContextPaths
           js == pure.out.JsonData
           plain ==
             << [Path |-> "dns.type",
                 Value |-> [kind |-> "string", val |-> EventName[pure.in.eventType]]],
                [Path |-> "dns.management_service",
                 Value |-> [kind |-> "string", val |-> ServiceName[pure.in.service]]] >>
           error ==
             << [Path |-> "dns.error_type",
                 Value |-> [kind |-> "string", val |-> ErrorName[pure.in.errorType]]],
                [Path |-> "dns.critical",
                 Value |-> [kind |-> "bool",
                            val |-> IF pure.in.critical THEN "true" ELSE "false"]] >>
       IN  /\ pure.in.kind = "event" => cps = plain
           /\ pure.in.kind = "errorEvent" =>
                 /\ cps = error \o plain
                 /\ Quote(cps[1].Value.val) = MemberText(js, "error_type")
                 /\ cps[2].Value.val = MemberText(js, "cricital")
           /\ Quote(cps[Len(cps) - 1].Value.val) = MemberText(js, "event")
           /\ Quote(cps[Len(cps)].Value.val) = MemberText(js, "management_service")

\* an error event of a critical detection failure has been converted
C14_Witness ==
    /\ pure.phase = "done"
    /\ pure.in.kind = "errorEvent"
    /\ pure.in.critical
    /\ pure.in.errorType = detectionFailedErrorType
    /\ Len(pure.out.KeyBasedContextPaths) = 4

C16_LinearizableInLockOrder ==
    /\ Cardinality({g \in Goroutines :
                      pc[g] \in {"body", "publish", "inPublish", "unlock"}}) <= 1
    /\ \A g \in Goroutines :
          pc[g] = "publish" =>
             ContextText(debuggerEvent[g].KeyBasedContextPaths, "dns.management_service")
               = ServiceName[managementService]
    /\ \A i \in 1..Len(published) :
          MemberText(published[i].JsonData, "management_service")
            = Quote(ServiceName[IF trace[i].lastSet = NoSet THEN unknownService
                                ELSE trace[i].lastSet])

\* two goroutines have published, and a set by the other took effect between
\* their snapshots
C16_Witness ==
    /\ Len(published) = 2
    /\ trace[1].g # trace[2].g
    /\ trace[1].lastSet = NoSet
    /\ trace[2].lastSet = systemdResolvedService
    /\ pc[trace[2].g] = "inPublish"

\* ------------------------------------------------------------------------
\* C17: the emit operations leave managementService as it is, whatever their
\* arguments and whatever steps of other goroutines come in between: the
\* field changes only in the assignment step of a setManagementService(s)
\* call, which leaves it equal to s and hands nothing to the publisher, so
\* the field is always the argument of the latest set (or the initial value).
\* ------------------------------------------------------------------------
C17_EmitLeavesService ==
    /\ [](managementService = IF lastSet = NoSet THEN unknownService ELSE lastSet)
    /\ [][ /\ \A g \in Goroutines :
                (call[g].op # "setManagementService" /\ pc'[g] # pc[g])
                   => managementService' = managementService
           /\ \A g \in Goroutines :
                (/\ call[g].op = "setManagementService"
                 /\ pc[g] = "body"
                 /\ pc'[g] # pc[g])
                   => /\ managementService' = call[g].service
                      /\ published' = published
           /\ \A g \in Goroutines :
                (/\ call[g].op = "setManagementService"
                 /\ pc[g] # "idle"
                 /\ pc'[g] # pc[g])
                   => published' = published
           /\ managementService' # managementService
                => \E g \in Goroutines :
                      /\ call[g].op = "setManagementService"
                      /\ pc[g] = "body"
         ]_vars

\* after a set, a critical error emission and a plain one have both returned
\* and the field still holds the argument of the set
C17_Witness ==
    /\ Len(published) = 2
    /\ completed = 2
    /\ \E i \in 1..2 : /\ trace[i].op = "emitDNSConfigurationErrorEvent"
                       /\ trace[i].critical
    /\ \E i \in 1..2 : trace[i].op = "emitDNSConfiguredEvent"
    /\ trace[1].lastSet = systemdResolvedService
    /\ managementService = systemdResolvedService
    /\ \A g \in Goroutines : pc[g] = "idle"

\* ------------------------------------------------------------------------
\* C18: where every goroutine that can take a step eventually takes one and
\* every Publish call returns, every setManagementService and emit call that
\* has been entered eventually returns; the lock is held only by a goroutine
\* that is inside an operation, so it is free whenever no operation is in
\* progress, and goroutines waiting for it are never left waiting for good.
\* (A call in progress always returns exactly when the goroutine is again and
\* again outside a call, and likewise for waiting in Lock().)
\* ------------------------------------------------------------------------
C18_EveryCallReturns ==
    /\ []((\A g \in Goroutines : pc[g] = "idle") => mu = Free)
    /\ [](mu # Free => pc[mu] \in {"body", "publish", "inPublish", "unlock"})
    /\ \A g \in Callers : []<>(pc[g] = "idle")
    /\ \A g \in Callers : []<>(pc[g] # "lock")

\* an emit call has returned and released the lock, and now one goroutine
\* waits in Lock() while the other is inside Publish
C18_Witness ==
    /\ completed >= 1
    /\ \E g, h \in Callers :
          /\ pc[g] = "lock"
          /\ pc[h] = "inPublish"
          /\ mu = h

====
